---- MODULE Spec2Model ----
(***************************************************************************)
(* EasyGoogleTranslate (easygoogletranslate.py): the translate /            *)
(* translate_file entry points, make_request, and the thread-pool fan-out   *)
(* of a multi-target call.                                                  *)
(*                                                                          *)
(* Python values are records tagged by their type in field t, so that the   *)
(* truth test of `x or default` and isinstance(x, list) are computed as     *)
(* Python computes them.  A text is 'a' * pad followed by the characters    *)
(* of tail; a response body is a sequence of tokens.                        *)
(***************************************************************************)
EXTENDS Integers, Sequences, FiniteSets

\* ------------------------------------------------------------------ bounds
\* Longest target list a call passes.
MaxTargets == 3
\* max_workers of the ThreadPoolExecutor (min(32, cpu + 4) in CPython).
PoolSize == 2

\* ------------------------------------------------------- program constants
\* translate: `if len(text) > 5000`.
MaxChars == 5000
\* the hardcoded default of __init__'s timeout parameter.
DefaultTimeout == 5
\* the status of exit(1).
ExitCode == 1

\* ------------------------------------------------------------ Python values
NoneV == [t |-> "None"]
PyStr(s) == [t |-> "str", s |-> s]
PyInt(n) == [t |-> "int", n |-> n]
PyList(q) == [t |-> "list", items |-> q]
PyTuple(q) == [t |-> "tuple", items |-> q]
PyDict(d) == [t |-> "dict", d |-> d]

\* Python's truth test, as `or` applies it to its left operand.
Truthy(x) ==
    CASE x.t = "None" -> FALSE
      [] x.t = "str" -> x.s # ""
      [] x.t = "int" -> x.n # 0
      [] x.t = "list" -> Len(x.items) > 0
      [] x.t = "tuple" -> Len(x.items) > 0
      [] x.t = "dict" -> x.d # {}

\* `arg or default` of translate's parameter resolution.
OrDefault(arg, default) == IF Truthy(arg) THEN arg ELSE default

\* isinstance(target_language, list)
IsList(x) == x.t = "list"

\* A default parameter of __init__: the default applies only when the
\* argument is not passed at all ("absent"); any passed value is stored.
Absent == [t |-> "absent"]
CtorArg(arg, default) == IF arg = Absent THEN default ELSE arg

\* -------------------------------------------------------------------- texts
Text(p, s) == [pad |-> p, tail |-> s]
TextLen(x) == x.pad + Len(x.tail)

\* The length check off by one: `len(text) > 5001`.
TooLong_OffByOne(x) == TextLen(x) > MaxChars + 1

\* len(text) > 5000
TooLong(x) == TextLen(x) > MaxChars

\* Text-mode reading (open(path, 'r'), newline=None): "\r\n" and a lone "\r"
\* are read as "\n".
RECURSIVE UniversalNewlines(_)
UniversalNewlines(s) ==
    IF s = <<>> THEN <<>>
    ELSE IF Head(s) = "\r"
         THEN IF Len(s) >= 2 /\ s[2] = "\n"
              THEN <<"\n">> \o UniversalNewlines(SubSeq(s, 3, Len(s)))
              ELSE <<"\n">> \o UniversalNewlines(Tail(s))
         ELSE <<Head(s)>> \o UniversalNewlines(Tail(s))

\* f.read() of a file whose decoded content is x.
ReadText(x) == Text(x.pad, UniversalNewlines(x.tail))

\* urllib.parse.quote of one character: letters are kept, control characters
\* are percent-encoded.
QuoteChar(c) ==
    CASE c = "\r" -> "%0D"
      [] c = "\n" -> "%0A"
      [] OTHER -> c

\* urllib.parse.quote(text.encode('utf8'))
Quote(x) == [pad |-> x.pad, tail |-> [i \in DOMAIN x.tail |-> QuoteChar(x.tail[i])]]

\* The text an f-string puts in the URL for a value: a str as it is, any
\* other value by its repr.
FormatValue(x) ==
    CASE x.t = "str" -> <<x.s>>
      [] x.t = "list" -> <<"[">> \o x.items \o <<"]">>
      [] x.t = "tuple" -> <<"(">> \o x.items \o <<")">>
      [] OTHER -> <<x.t>>

\* The URL of make_request, by its three substituted parts.
FormatUrl(target, source, text) ==
    [tl |-> FormatValue(target), sl |-> FormatValue(source), q |-> Quote(text)]

\* ------------------------------------------------------------ response body
OpenT0 == [k |-> "open", cls |-> "t0"]
OpenRC == [k |-> "open", cls |-> "result-container"]
Lt == [k |-> "lt"]
Txt(s) == [k |-> "txt", s |-> s]
Translated(url) == [k |-> "translated", url |-> url]

\* Index of the first "<" of body at or after position i, 0 when none.
RECURSIVE NextLt(_, _)
NextLt(body, i) ==
    IF i > Len(body) THEN 0
    ELSE IF body[i] = Lt THEN i
    ELSE NextLt(body, i + 1)

\* re.findall(self.pattern, body) from position i on: every marker
\* class="t0"> or class="result-container"> followed somewhere by "<"
\* captures the tokens between them; the scan resumes after that "<".
RECURSIVE FindAllFrom(_, _)
FindAllFrom(body, i) ==
    IF i > Len(body) THEN <<>>
    ELSE IF body[i] \in {OpenT0, OpenRC}
         THEN LET j == NextLt(body, i + 1)
              IN  IF j = 0 THEN <<>>
                  ELSE <<SubSeq(body, i + 1, j - 1)>> \o FindAllFrom(body, j + 1)
         ELSE FindAllFrom(body, i + 1)

FindAll(body) == FindAllFrom(body, 1)

\* html.unescape of one token.
UnescapeToken(tok) ==
    IF tok = Txt("&#39;") THEN Txt("'")
    ELSE IF tok = Txt("&amp;") THEN Txt("&")
    ELSE tok

\* html.unescape(result[0])
Unescape(capture) == [i \in DOMAIN capture |-> UnescapeToken(capture[i])]


\* ------------------------------------------------- the endpoint (stubbed)
\* How one HTTP exchange ends: a page with the t0 marker, a page with the
\* result-container marker, a page the pattern does not match, or a
\* requests.exceptions.RequestException (transport failure, timeout, or the
\* HTTPError raise_for_status raises on a non-success status).
Outcomes == {"t0", "result-container", "nomatch", "reqexc"}

\* The page of a successful translation of url.
OkBody(url, marker) ==
    <<Txt("<html>"), IF marker = "t0" THEN OpenT0 ELSE OpenRC,
      Translated(url), Txt("&#39;"), Lt, Txt("/div>")>>

\* A page the pattern does not match: for target fr a marker that no "<"
\* follows, for every other target a page without a marker.
NoMatchBody(url) ==
    IF url.tl = <<"fr">> THEN <<OpenT0, Translated(url)>>
    ELSE <<Txt("captcha"), Translated(url), Txt("/html>")>>

\* response.text of an exchange that returned a page.
ResponseText(url, outcome) ==
    IF outcome = "nomatch" THEN NoMatchBody(url) ELSE OkBody(url, outcome)

\* -------------------------------------------------------------- file system
NoText == Text(0, <<"no text">>)
FileSystem ==
    [p \in {"missing.txt", "dir", "short.txt", "crlf.txt", "long.txt"} |->
        CASE p = "missing.txt" -> [type |-> "missing", content |-> NoText]
          [] p = "dir" -> [type |-> "dir", content |-> NoText]
          [] p = "short.txt" -> [type |-> "file", content |-> Text(0, <<"b", "\r", "\n">>)]
          [] p = "crlf.txt" -> [type |-> "file", content |-> Text(MaxChars - 1, <<"\r", "\n">>)]
          [] p = "long.txt" -> [type |-> "file", content |-> Text(MaxChars, <<"b">>)]]

\* os.path.exists in place of os.path.isfile: a directory passes.
IsFile_Exists(p) == FileSystem[p].type # "missing"

\* os.path.isfile(file_path)
IsFile(p) == FileSystem[p].type = "file"

\* ------------------------------------------------------------------- inputs
Langs == <<"fr", "de", "es", "it", "pt">>
Forward(n) == SubSeq(Langs, 1, n)
Backward(n) == [i \in 1..n |-> Langs[n + 1 - i]]

TargetLists ==
    {Forward(n) : n \in 1..MaxTargets} \cup {Backward(n) : n \in 1..MaxTargets}
        \cup {<<"fr", "fr">>}

\* The calls of the fan-out specification: every target shape, the other
\* arguments left to the instance defaults.
FanOutTargets ==
    {NoneV, PyStr("fr"), PyList(<<>>), PyTuple(<<"fr", "de">>)}
        \cup {PyList(q) : q \in TargetLists}
FanOutCalls ==
    {[kind |-> "translate", text |-> Text(0, <<"b">>), file_path |-> "",
      target_language |-> tg, source_language |-> NoneV, timeout |-> NoneV,
      proxies |-> NoneV] : tg \in FanOutTargets}
    \cup
    {[kind |-> k[1], text |-> k[2], file_path |-> k[3],
      target_language |-> tg, source_language |-> PyStr("en"), timeout |-> NoneV,
      proxies |-> NoneV] :
        k \in {<<"translate", Text(MaxChars, <<"b">>), "">>,
               <<"translate_file", NoText, "long.txt">>,
               <<"translate_file", NoText, "short.txt">>,
               <<"translate_file", NoText, "dir">>},
        tg \in {PyStr("de"), PyList(<<"fr", "de">>)}}

\* The calls of the fairness specification: lists longer than the pool.
FairCalls ==
    {c \in FanOutCalls :
        \/ c.kind = "translate_file"
        \/ c.target_language \in {PyStr("fr")} \cup {PyList(Forward(n)) : n \in 1..MaxTargets}}

\* The calls of the argument specification: every combination of passed,
\* falsy and omitted arguments, on short and on over-long texts and files.
ArgTargets == {NoneV, PyStr("fr"), PyList(<<>>), PyList(<<"fr", "de">>)}
ArgSources == {NoneV, PyStr(""), PyStr("en")}
ArgTimeouts == {NoneV, PyInt(0), PyInt(10)}
ArgProxies == {NoneV, PyDict({}), PyDict({<<"https", "proxy1">>})}
ArgTexts ==
    {<<"translate", Text(MaxChars - 1, <<"b">>), "">>,
     <<"translate", Text(MaxChars - 1, <<"\r", "\n">>), "">>,
     <<"translate_file", NoText, "crlf.txt">>,
     <<"translate_file", NoText, "long.txt">>,
     <<"translate_file", NoText, "missing.txt">>,
     <<"translate_file", NoText, "dir">>}
ArgCalls ==
    {[kind |-> k[1], text |-> k[2], file_path |-> k[3],
      target_language |-> tg, source_language |-> sl, timeout |-> tm,
      proxies |-> px] :
        k \in ArgTexts, tg \in ArgTargets, sl \in ArgSources,
        tm \in ArgTimeouts, px \in ArgProxies}

\* Constructor arguments: each passed or left out.
DefaultCtor ==
    [source_language |-> Absent, target_language |-> Absent,
     timeout |-> Absent, proxies |-> Absent]
ArgCtors ==
    {DefaultCtor,
     [source_language |-> PyStr("ja"), target_language |-> PyStr("es"),
      timeout |-> PyInt(3), proxies |-> PyDict({<<"http", "proxy0">>})]}

\* ---------------------------------------------------------------- the state
VARIABLES
    self,       \* the instance's fields, set by __init__
    call,       \* the call under way: the entry point and its arguments
    pc,         \* where the calling thread is
    text,       \* translate's text parameter, NoText before translate is entered
    eff,        \* translate's four parameters after lines 122-125
    futures,    \* the futures of executor.submit, in submission order
    direct,     \* the make_request the calling thread runs itself (line 139)
    requests,   \* every requests.get issued, in order
    pre,        \* as_completed: the futures it found finished at its start
    waiter,     \* as_completed: the installed waiter and its finished_futures
    results,    \* the list line 137 builds
    yielded,    \* the futures as_completed has yielded, in that order
    completed,  \* the futures in the order they finished
    error_txt,  \* the file error.txt of the working directory
    reads,      \* how many files have been opened for reading
    ret         \* the value the call returned, or the status it exited with

vars == <<self, call, pc, text, eff, futures, direct, requests, pre, waiter,
          results, yielded, completed, error_txt, reads, ret>>

NoEff == [target_language |-> NoneV, source_language |-> NoneV,
          timeout |-> NoneV, proxies |-> NoneV]
NoRequest == [state |-> "none", target |-> NoneV, outcome |-> "none", result |-> <<>>]
\* A make_request invocation about to run with target tg.
NewRequest(tg, st) == [state |-> st, target |-> tg, outcome |-> "none", result |-> <<>>]
NoReturn == [t |-> "running"]
SystemExit == [t |-> "SystemExit", code |-> ExitCode]

\* __init__: the four fields.
NewInstance(ctor) ==
    [source_language |-> CtorArg(ctor.source_language, PyStr("auto")),
     target_language |-> CtorArg(ctor.target_language, PyStr("tr")),
     timeout |-> CtorArg(ctor.timeout, PyInt(DefaultTimeout)),
     proxies |-> CtorArg(ctor.proxies, NoneV)]

InitWith(ctors, calls) ==
    /\ self \in {NewInstance(c) : c \in ctors}
    /\ call \in calls
    /\ pc = "idle"
    /\ text = NoText
    /\ eff = NoEff
    /\ futures = <<>>
    /\ direct = NoRequest
    /\ requests = <<>>
    /\ pre = {}
    /\ waiter = [installed |-> FALSE, finished |-> <<>>]
    /\ results = <<>>
    /\ yielded = <<>>
    /\ completed = <<>>
    /\ error_txt = [exists |-> FALSE, data |-> <<>>]
    /\ reads = 0
    /\ ret = NoReturn

Init == InitWith({DefaultCtor}, FanOutCalls)
FairInit == InitWith({DefaultCtor}, FairCalls)
ArgInit == InitWith(ArgCtors, ArgCalls)


\* ------------------------------------------------------------- make_request
\* The arguments of requests.get for the request of slot i (0: the calling
\* thread's own request) with target tg.
GetArgs(i, tg) ==
    [slot |-> i, url |-> FormatUrl(tg, eff.source_language, text),
     timeout |-> eff.timeout, proxies |-> eff.proxies]

\* Lines 99-106 on a page: the first capture unescaped, or no match.
Extract(body) ==
    LET found == FindAll(body)
    IN  IF found = <<>> THEN [matched |-> FALSE, value |-> <<>>]
        ELSE [matched |-> TRUE, value |-> Unescape(found[1])]

\* What the exchange of request r ends in.
\* reqexc: lines 107-109, exit(1).  A page that matches: line 106.  A page
\* that does not: line 103 opens error.txt for writing, truncating it.
AfterResponse(r, o) ==
    LET url == FormatUrl(r.target, eff.source_language, text)
    IN  IF o = "reqexc"
        THEN [r EXCEPT !.state = "done", !.outcome = "reqexc"]
        ELSE LET x == Extract(ResponseText(url, o))
             IN  IF x.matched
                 THEN [r EXCEPT !.state = "done", !.outcome = "ok", !.result = x.value]
                 ELSE [r EXCEPT !.state = "writing", !.outcome = "nomatch"]

\* error.txt after f.write(response.text) and the close that flushes it: the
\* page is written from offset 0 over whatever the file holds by then.
WriteAtStart(data, body) == body \o SubSeq(data, Len(body) + 1, Len(data))

\* The page request r received and could not match.
UnmatchedPage(r) == NoMatchBody(FormatUrl(r.target, eff.source_language, text))

\* ---------------------------------------------------------------- translate
\* Lines 122-125.
Resolve(c, inst) ==
    [target_language |-> OrDefault(c.target_language, inst.target_language),
     source_language |-> OrDefault(c.source_language, inst.source_language),
     timeout |-> OrDefault(c.timeout, inst.timeout),
     proxies |-> OrDefault(c.proxies, inst.proxies)]

\* translate entered with text txt: lines 122-131 and the call of line 139.
TranslateBody(txt) ==
    LET e == Resolve(call, self)
    IN  /\ text' = txt
        /\ eff' = e
        /\ IF TooLong(txt)
           THEN /\ pc' = "exited"
                /\ ret' = SystemExit
                /\ direct' = direct
           ELSE IF IsList(e.target_language)
           THEN /\ pc' = "submitting"
                /\ UNCHANGED <<ret, direct>>
           ELSE /\ pc' = "direct"
                /\ direct' = NewRequest(e.target_language, "called")
                /\ ret' = ret
        /\ UNCHANGED <<self, call, futures, requests, pre, waiter, results,
                       yielded, completed, error_txt>>

Translate ==
    /\ pc = "idle"
    /\ call.kind = "translate"
    /\ TranslateBody(call.text)
    /\ reads' = reads

\* translate_file: lines 152-159.
TranslateFile ==
    /\ pc = "idle"
    /\ call.kind = "translate_file"
    /\ IF IsFile(call.file_path)
       THEN /\ reads' = reads + 1
            /\ TranslateBody(ReadText(FileSystem[call.file_path].content))
       ELSE /\ pc' = "exited"
            /\ ret' = SystemExit
            /\ UNCHANGED <<self, call, text, eff, futures, direct, requests, pre,
                           waiter, results, yielded, completed, error_txt, reads>>

\* --------------------------------------- the calling thread's own request
DirectGet ==
    /\ pc = "direct"
    /\ direct.state = "called"
    /\ requests' = Append(requests, GetArgs(0, direct.target))
    /\ direct' = [direct EXCEPT !.state = "running"]
    /\ UNCHANGED <<self, call, pc, text, eff, futures, pre, waiter, results,
                   yielded, completed, error_txt, reads, ret>>

DirectResponse ==
    /\ pc = "direct"
    /\ direct.state = "running"
    /\ \E o \in Outcomes :
        LET r == AfterResponse(direct, o)
        IN  /\ direct' = r
            /\ IF r.state = "writing"
               THEN /\ error_txt' = [exists |-> TRUE, data |-> <<>>]
                    /\ UNCHANGED <<pc, ret>>
               ELSE /\ error_txt' = error_txt
                    /\ IF r.outcome = "ok"
                       THEN pc' = "returned" /\ ret' = [t |-> "str", tokens |-> r.result]
                       ELSE pc' = "exited" /\ ret' = SystemExit
    /\ UNCHANGED <<self, call, text, eff, futures, requests, pre, waiter,
                   results, yielded, completed, reads>>

DirectWriteError ==
    /\ pc = "direct"
    /\ direct.state = "writing"
    /\ error_txt' = [exists |-> TRUE,
                     data |-> WriteAtStart(error_txt.data, UnmatchedPage(direct))]
    /\ direct' = [direct EXCEPT !.state = "done"]
    /\ pc' = "exited"
    /\ ret' = SystemExit
    /\ UNCHANGED <<self, call, text, eff, futures, requests, pre, waiter,
                   results, yielded, completed, reads>>


\* ------------------------------------------------------------- the fan-out
\* executor.submit of line 134 for the next target of the list.
Submit ==
    /\ pc = "submitting"
    /\ Len(futures) < Len(eff.target_language.items)
    /\ futures' = Append(futures,
                         NewRequest(PyStr(eff.target_language.items[Len(futures) + 1]),
                                    "queued"))
    /\ UNCHANGED <<self, call, pc, text, eff, direct, requests, pre, waiter,
                   results, yielded, completed, error_txt, reads, ret>>

Range(q) == {q[k] : k \in DOMAIN q}

\* The futures that have finished.
Finished(fs) == {i \in DOMAIN fs : fs[i].state = "done"}

\* as_completed(futures) of line 137, entered once every target is
\* submitted: the futures already finished are set aside and a waiter is
\* installed on all of them, in one step under the futures' locks.
AsCompleted ==
    /\ pc = "submitting"
    /\ Len(futures) = Len(eff.target_language.items)
    /\ pre' = Finished(futures)
    /\ waiter' = [installed |-> TRUE, finished |-> <<>>]
    /\ pc' = IF futures = <<>> THEN "closing" ELSE "collecting"
    /\ UNCHANGED <<self, call, text, eff, futures, direct, requests, results,
                   yielded, completed, error_txt, reads, ret>>

\* as_completed without its `finished.reverse()`: the newest entry of
\* finished_futures is yielded first.
Yieldable_Newest(found, finished) ==
    IF found # {} THEN found
    ELSE IF finished # <<>> THEN {finished[Len(finished)]}
    ELSE {}

\* The futures as_completed may yield next: any of those it found finished
\* at its start and has not yielded yet (it holds them in a set), and once
\* they are all yielded the oldest entry of the waiter's finished_futures.
Yieldable(found, finished) ==
    IF found # {} THEN found
    ELSE IF finished # <<>> THEN {Head(finished)}
    ELSE {}

\* One round of the comprehension of line 137: as_completed yields a future
\* and f.result() returns its translation or raises its SystemExit.
Collect ==
    /\ pc = "collecting"
    /\ \E i \in Yieldable(pre \ Range(yielded), waiter.finished) :
        /\ waiter' = IF i \in pre THEN waiter
                     ELSE [waiter EXCEPT !.finished = Tail(waiter.finished)]
        /\ yielded' = Append(yielded, i)
        /\ IF futures[i].outcome = "ok"
           THEN /\ results' = Append(results, futures[i].result)
                /\ pc' = IF Len(results) + 1 = Len(futures) THEN "closing"
                         ELSE "collecting"
           ELSE /\ results' = results
                /\ pc' = "unwinding"
    /\ UNCHANGED <<self, call, text, eff, futures, direct, requests, pre,
                   completed, error_txt, reads, ret>>

\* The executor left with shutdown(wait=False): no wait.
ShutdownWaitOver_NoWait(fs) == TRUE

\* The wait of the executor's __exit__, shutdown(wait=True): over once
\* every submitted work item has run.
ShutdownWaitOver(fs) == Finished(fs) = DOMAIN fs

\* Leaving the with block of line 132 with the finished list.
ShutdownReturn ==
    /\ pc = "closing"
    /\ ShutdownWaitOver(futures)
    /\ pc' = "returned"
    /\ ret' = PyList(results)
    /\ UNCHANGED <<self, call, text, eff, futures, direct, requests, pre, waiter,
                   results, yielded, completed, error_txt, reads>>

\* Leaving the with block of line 132 with the SystemExit f.result() raised.
ShutdownRaise ==
    /\ pc = "unwinding"
    /\ ShutdownWaitOver(futures)
    /\ pc' = "exited"
    /\ ret' = SystemExit
    /\ UNCHANGED <<self, call, text, eff, futures, direct, requests, pre, waiter,
                   results, yielded, completed, error_txt, reads>>

\* ---------------------------------------------------------- the pool threads
\* A pool thread that dies with the SystemExit of its work item and is never
\* replaced: it stays counted against the pool.
Busy_DeadThreads(fs) ==
    {i \in DOMAIN fs :
        \/ fs[i].state \in {"running", "writing"}
        \/ fs[i].state = "done" /\ fs[i].outcome # "ok"}

\* The work items a pool thread is running.
Busy(fs) == {i \in DOMAIN fs : fs[i].state \in {"running", "writing"}}

\* The work queue is first in, first out: the item a free thread takes.
NextQueued(fs, i) ==
    /\ fs[i].state = "queued"
    /\ \A j \in 1..(i - 1) : fs[j].state # "queued"

\* A future finishes (set_result, or set_exception with the SystemExit of
\* exit(1)): it notifies the waiter as_completed installed, if any.
Finish(i, r) ==
    /\ futures' = [futures EXCEPT ![i] = r]
    /\ completed' = Append(completed, i)
    /\ waiter' = IF waiter.installed
                 THEN [waiter EXCEPT !.finished = Append(waiter.finished, i)]
                 ELSE waiter

\* A pool thread takes the next work item and make_request issues its GET.
WorkerGet(i) ==
    /\ NextQueued(futures, i)
    /\ Cardinality(Busy(futures)) < PoolSize
    /\ futures' = [futures EXCEPT ![i].state = "running"]
    /\ requests' = Append(requests, GetArgs(i, futures[i].target))
    /\ UNCHANGED <<self, call, pc, text, eff, direct, pre, waiter, results,
                   yielded, completed, error_txt, reads, ret>>

WorkerResponse(i) ==
    /\ futures[i].state = "running"
    /\ \E o \in Outcomes :
        LET r == AfterResponse(futures[i], o)
        IN  IF r.state = "writing"
            THEN /\ futures' = [futures EXCEPT ![i] = r]
                 /\ error_txt' = [exists |-> TRUE, data |-> <<>>]
                 /\ UNCHANGED <<completed, waiter>>
            ELSE /\ Finish(i, r)
                 /\ error_txt' = error_txt
    /\ UNCHANGED <<self, call, pc, text, eff, direct, requests, pre, results,
                   yielded, reads, ret>>

WorkerWriteError(i) ==
    /\ futures[i].state = "writing"
    /\ error_txt' = [exists |-> TRUE,
                     data |-> WriteAtStart(error_txt.data, UnmatchedPage(futures[i]))]
    /\ Finish(i, [futures[i] EXCEPT !.state = "done"])
    /\ UNCHANGED <<self, call, pc, text, eff, direct, requests, pre, results,
                   yielded, reads, ret>>

\* ------------------------------------------------------- the specifications
Next ==
    \/ Translate
    \/ TranslateFile
    \/ DirectGet
    \/ DirectResponse
    \/ DirectWriteError
    \/ Submit
    \/ AsCompleted
    \/ Collect
    \/ ShutdownReturn
    \/ ShutdownRaise
    \/ \E i \in DOMAIN futures : WorkerGet(i)
    \/ \E i \in DOMAIN futures : WorkerResponse(i)
    \/ \E i \in DOMAIN futures : WorkerWriteError(i)

\* Fan-out calls on an instance built with the default arguments.
Spec == Init /\ [][Next]_vars

\* Calls with every combination of arguments.
ArgSpec == ArgInit /\ [][Next]_vars

\* Every thread that can take a step eventually takes one, and every HTTP
\* exchange under way eventually ends.
FairSpec == FairInit /\ [][Next]_vars /\ WF_vars(Next)

Done == pc \in {"returned", "exited"}



\* ================================================================== claims
\* translate has been entered (its parameters are resolved).
Entered == text # NoText
\* The call is a fan-out: its resolved target is a list.
FanOut == Entered /\ IsList(eff.target_language)
\* The requests.get calls issued for slot i.
RequestsOf(i) == {k \in DOMAIN requests : requests[k].slot = i}
\* The futures whose request failed.
Failed == {i \in DOMAIN futures : futures[i].state = "done" /\ futures[i].outcome # "ok"}
\* The requests whose page the pattern did not match and that have ended.
Unmatched == {i \in DOMAIN futures : futures[i].state = "done" /\ futures[i].outcome = "nomatch"}

\* C1: a text of more than 5000 characters, passed to translate directly or
\* read by translate_file, makes the call exit with no requests.get issued,
\* no work item submitted and no request started, whatever the target,
\* source language, timeout and proxies.
C1_LongTextNoRequest ==
    (Entered /\ TextLen(text) > MaxChars) =>
        /\ pc = "exited"
        /\ ret = SystemExit
        /\ requests = <<>>
        /\ futures = <<>>
        /\ direct = NoRequest

\* C1 witness: a file of 5001 characters, list target, explicit timeout.
C1_Witness ==
    /\ pc = "exited"
    /\ call.kind = "translate_file"
    /\ TextLen(text) = MaxChars + 1
    /\ IsList(eff.target_language)
    /\ call.timeout = PyInt(10)
    /\ requests = <<>>

\* C2 (as claimed): a call whose target argument is a collection of N codes
\* and whose text passes the length check issues exactly N requests, one
\* per entry, all with the same text, source, timeout and proxies, and
\* returns N translations when they all succeed.
C2_OneRequestPerTarget ==
    (Done /\ Entered /\ ~(TextLen(text) > MaxChars)
          /\ call.target_language.t \in {"list", "tuple"}) =>
        LET items == call.target_language.items
        IN  /\ Len(requests) = Len(items)
            /\ \A k \in DOMAIN items :
                \E j \in DOMAIN requests :
                    /\ requests[j].url.tl = <<items[k]>>
                    /\ requests[j].url.q = Quote(text)
                    /\ requests[j].url.sl = FormatValue(eff.source_language)
                    /\ requests[j].timeout = eff.timeout
                    /\ requests[j].proxies = eff.proxies
            /\ pc = "returned" => (ret.t = "list" /\ Len(ret.items) = Len(items))

\* C3 (as claimed): the list a fan-out returns is in completion order.
C3_CompletionOrder ==
    (pc = "returned" /\ FanOut) =>
        /\ yielded = completed
        /\ results = [k \in DOMAIN completed |-> futures[completed[k]].result]

\* C3 (amended): the list a fan-out returns holds first the translations of
\* the requests that had finished when as_completed started, in any order,
\* then those of the other requests in the order they finished.
C3_CompletionOrderAfterStart ==
    (pc = "returned" /\ FanOut) =>
        LET n == Len(futures)
            k == Cardinality(pre)
        IN  /\ Len(yielded) = n
            /\ Len(completed) = n
            /\ pre = {completed[j] : j \in 1..k}
            /\ pre = {yielded[j] : j \in 1..k}
            /\ \A j \in (k + 1)..n : yielded[j] = completed[j]
            /\ results = [j \in 1..n |-> futures[yielded[j]].result]
            /\ ret = PyList(results)

\* C3 witness: three targets, one finished before as_completed started,
\* completion order 2, 3, 1 unlike the order supplied.
C3_Witness ==
    /\ pc = "returned"
    /\ FanOut
    /\ Cardinality(pre) = 1
    /\ completed = <<2, 3, 1>>
    /\ yielded = completed

\* C4 (as claimed): each of the four parameters of a translate call is the
\* argument passed when one is passed (anything but None), and the
\* instance's field otherwise.
C4_ExplicitArgumentWins ==
    Entered =>
        /\ eff.target_language =
              IF call.target_language # NoneV THEN call.target_language
              ELSE self.target_language
        /\ eff.source_language =
              IF call.source_language # NoneV THEN call.source_language
              ELSE self.source_language
        /\ eff.timeout = IF call.timeout # NoneV THEN call.timeout ELSE self.timeout
        /\ eff.proxies = IF call.proxies # NoneV THEN call.proxies ELSE self.proxies

\* The decoded content of the file of a translate_file call.
Content == FileSystem[call.file_path].content

\* C5 (as claimed): translate_file on a path that is no regular file exits
\* with no request and no file read; on a regular file it does what
\* translate does on the file's decoded content.
C5_FileAsItsContent ==
    (call.kind = "translate_file" /\ pc # "idle") =>
        IF FileSystem[call.file_path].type = "file"
        THEN /\ text = Content
             /\ TextLen(Content) > MaxChars => (pc = "exited" /\ requests = <<>>)
             /\ \A j \in DOMAIN requests : requests[j].url.q = Quote(Content)
        ELSE /\ pc = "exited"
             /\ requests = <<>>
             /\ reads = 0
             /\ ~Entered

\* C5 (amended): translate_file on a path that is no regular file exits
\* with no request and no file read; on a regular file it does what
\* translate does on the file's content read in text mode, every "\r\n" and
\* lone "\r" of it replaced by "\n": that text decides the length check and
\* is the text of every request.
C5_FileAsItsTextModeContent ==
    (call.kind = "translate_file" /\ pc # "idle") =>
        IF FileSystem[call.file_path].type = "file"
        THEN /\ reads = 1
             /\ \A c \in DOMAIN text.tail : text.tail[c] # "\r"
             /\ call.file_path = "crlf.txt" => text = Text(MaxChars - 1, <<"\n">>)
             /\ call.file_path = "long.txt" => text = Content
             /\ TextLen(text) > MaxChars <=> (pc = "exited" /\ requests = <<>>
                                                /\ futures = <<>> /\ direct = NoRequest)
             /\ \A j \in DOMAIN requests :
                    /\ requests[j].url.q = Quote(text)
                    /\ requests[j].url.sl = FormatValue(eff.source_language)
                    /\ requests[j].timeout = eff.timeout
                    /\ requests[j].proxies = eff.proxies
             /\ eff = Resolve(call, self)
        ELSE /\ pc = "exited"
             /\ ret = SystemExit
             /\ requests = <<>>
             /\ reads = 0
             /\ ~Entered

\* C5 witness: a file of 4999 characters and "\r\n" (5001 characters) is
\* translated: its request carries the 5000 characters read.
C5_Witness ==
    /\ pc = "returned"
    /\ call.file_path = "crlf.txt"
    /\ TextLen(Content) = MaxChars + 1
    /\ TextLen(text) = MaxChars
    /\ Len(requests) = 1
    /\ requests[1].url.q = Text(MaxChars - 1, <<"%0A">>)

\* C6 (as claimed): when a request of a fan-out fails, the caller still
\* receives a collection with one entry per target, holding the translation
\* of every request that succeeded.
C6_FailureIsolated ==
    (Done /\ FanOut /\ Failed # {}) =>
        /\ pc = "returned"
        /\ ret.t = "list"
        /\ Len(ret.items) = Len(futures)
        /\ \A i \in DOMAIN futures :
              futures[i].outcome = "ok" => futures[i].result \in Range(ret.items)

\* C7: when a fan-out call ends, by returning or by exiting, every target
\* of the list has been submitted and every submitted request has issued
\* its one GET and has finished.
C7_AllRequestsRun ==
    (Done /\ FanOut /\ ~(TextLen(text) > MaxChars)) =>
        /\ Len(futures) = Len(eff.target_language.items)
        /\ \A i \in DOMAIN futures :
              /\ futures[i].state = "done"
              /\ Cardinality(RequestsOf(i)) = 1
        /\ Range(completed) = DOMAIN futures

\* C7 witness: three requests on two threads; the first to finish failed
\* and was the one whose SystemExit ended the collection; the last to
\* finish, started after it, succeeded.
C7_Witness ==
    /\ pc = "exited"
    /\ Len(futures) = 3
    /\ pre = {}
    /\ yielded = <<completed[1]>>
    /\ futures[completed[1]].outcome = "reqexc"
    /\ completed[3] = 3
    /\ futures[3].outcome = "ok"

\* C8 (as claimed): no two requests of one fan-out write the same location:
\* at most one of them opens error.txt for writing.
C8_NoSharedLocation ==
    Cardinality({i \in DOMAIN futures : futures[i].outcome = "nomatch"}) <= 1

\* C9 (as claimed): a request whose page the pattern does not match yields
\* no translation, and the error of the call carries that page verbatim;
\* the only carrier exit(1) leaves is error.txt.
C9_ErrorCarriesBody ==
    Done =>
        /\ \A i \in Unmatched :
              /\ futures[i].result = <<>>
              /\ error_txt.exists
              /\ error_txt.data = UnmatchedPage(futures[i])
        /\ direct.outcome = "nomatch" =>
              /\ pc = "exited"
              /\ error_txt.data = UnmatchedPage(direct)

\* C10: under fair scheduling, with every HTTP exchange ending, every call
\* ends: it returns or it exits.
C10_CallEnds == <>Done

\* C10 witness: a call with more targets than pool threads, some requests
\* succeeding and some failing, has ended.
C10_Witness ==
    /\ Done
    /\ Len(futures) > PoolSize
    /\ Failed # {}
    /\ \E i \in DOMAIN futures : futures[i].outcome = "ok"
    /\ Cardinality(Failed) >= PoolSize

====
